---- MODULE Spec2Model ----
(***************************************************************************)
(* Sendaway: the scheduled batch delivery subsystem.                       *)
(*                                                                         *)
(* The model follows supabase/functions/process-delivery (the orchestrator *)
(* `serve` handler with processMessageBatch / processMessage /             *)
(* prepareDelivery / executeDelivery), the delivery_batch_locks table with *)
(* its enforce_single_batch_lock trigger, and the cleanup-logs retention   *)
(* sweep.  Every `await` of the handler is one step of the run, so that    *)
(* other requests interleave exactly where the event loop and the database *)
(* let them.  Every database call has three outcomes: it is applied        *)
(* ("ok"), it returns {data: null, error} ("error"), or its promise        *)
(* rejects ("throw").                                                      *)
(***************************************************************************)
EXTENDS Integers, Sequences, FiniteSets, TLC

\* ---------------------------------------------------------------- bounds
MaxJumps == 1
MaxMsgTime == 46000
MaxDeliveries == 3
MaxLogs == 3
MaxCalls == 3
MaxShows == 3
MaxTicks == 2

\* ------------------------------------------------------ program constants
BATCH_SIZE == 30
TIMEOUT_MS == 45000
RATE_LIMIT_DELAY_MS == 1000
RETENTION_DAYS == 90

\* ------------------------------------------------------------- universes
Runs == {1, 2}
Msgs == {"m1", "m2", "m3"}
ValidEmail == <<"u", "@", "x">>
Emails == {ValidEmail, <<"u", "x">>}
ScheduledDates == {0, RETENTION_DAYS + 1}
\* what the scheduler and the users supply: the number of triggers (scheduled
\* or manual) and the rows of public.messages
Workloads ==
  {[triggers |-> 2, ids |-> {"m1"}, dates |-> ScheduledDates,
    emails |-> Emails],
   [triggers |-> 1, ids |-> {"m1", "m2"}, dates |-> ScheduledDates,
    emails |-> Emails],
   [triggers |-> 1, ids |-> {"m1", "m2", "m3"}, dates |-> {0},
    emails |-> {ValidEmail}]}
NULL == "null"
SECRET == "s3cret"
HeaderValues == {NULL, SECRET, "wrong"}
DbOutcomes == {"ok", "error", "throw"}
MsgTimes == {RATE_LIMIT_DELAY_MS, TIMEOUT_MS - RATE_LIMIT_DELAY_MS, MaxMsgTime}

VARIABLES
  cronSecret,            \* Deno.env CRON_SECRET (NULL when not configured)
  now,                   \* current date, in days
  triggers,              \* requests the scheduler has still to make
  messages,              \* table public.messages, by id
  delivery_logs,         \* table public.delivery_logs, in created_at order
  nextLogId,             \* ids handed out to delivery_logs rows so far
  delivery_batch_locks,  \* table public.delivery_batch_locks (set of ids)
  outbox,                \* emails the transport accepted, per message
  pc,                    \* position of each request in serve
  lockId,                \* serve: let lockId
  batch,                 \* serve: const messages (the selected page)
  idx,                   \* processMessageBatch: i (1-based)
  result,                \* processMessageBatch: result
  elapsed,               \* Date.now() - startTime
  attemptNumber,         \* prepareDelivery: attemptNumber
  myRow,                 \* id of the row this processing inserted (0: none)
  seenDelivered,         \* the ledger held a delivered row when it was read
  caught,                \* processMessage: errorMessage in the catch block
  dbFault,               \* first failure of a database call of the request
  accepted,              \* emails the transport accepted in this request
  release,               \* outcome of the lock delete in finally
  response,              \* the HTTP response of the request
  payments,              \* table public.payments, by checkout session id
  profiles,              \* table public.profiles, by user id
  hook,                  \* the webhook-stripe requests, per handler
  deliveries,            \* webhook deliveries Stripe has made so far
  hookFault,             \* a database call of the webhook request failed
  metadata,              \* metadata.userId of each Stripe checkout session
  free_message_used,     \* profiles.free_message_used of the signed-in user
  storage_used_bytes,    \* profiles.storage_used_bytes of that user
  user_messages,         \* rows of public.messages created through the app
  blobs,                 \* objects in the message-videos bucket
  client,                \* the MessageService calls, per browser tab
  modal,                 \* the fields of the MessageDetailModal instance
  browser,               \* document, timers, pending requests and clock
  cancelled,             \* cancelMessage calls on scheduled messages, by id
  calls                  \* MessageService calls started so far

vars == <<cronSecret, now, triggers, messages, delivery_logs, nextLogId,
          delivery_batch_locks, outbox, pc, lockId, batch, idx,
          result, elapsed, attemptNumber, myRow, seenDelivered, caught,
          dbFault, accepted, release, response, payments, profiles, hook,
          deliveries, hookFault, metadata, free_message_used, storage_used_bytes, user_messages,
          blobs, client, calls, modal, browser, cancelled>>

\* the state of the app's MessageService and the rows it works on
service == <<free_message_used, storage_used_bytes, user_messages, blobs,
             client, calls>>

\* the message-detail modal of the app and the page it lives in
detail == <<modal, browser>>

\* the tables and requests of the payment webhook and of the app
elsewhere ==
  <<payments, profiles, hook, deliveries, hookFault, metadata, service, detail, cancelled>>

store == <<messages, delivery_logs, nextLogId, delivery_batch_locks, outbox>>
env == <<cronSecret, now, triggers>>
locals == <<lockId, batch, idx, result, elapsed, attemptNumber, myRow,
            seenDelivered,
            caught, dbFault, accepted, release, response>>

\* ------------------------------------------------------------- responses
ZeroResult ==
  [processed |-> 0, delivered |-> 0, failed |-> 0, stoppedEarly |-> FALSE]

NoResponse == [status |-> 0, kind |-> "none", body |-> ZeroResult]
Unauthorized == [status |-> 401, kind |-> "unauthorized", body |-> ZeroResult]
Skipped == [status |-> 200, kind |-> "skipped", body |-> ZeroResult]
\* fault: the catch block answering 200
ErrorAnsweredOk == [status |-> 200, kind |-> "error", body |-> ZeroResult]

ServerError == [status |-> 500, kind |-> "error", body |-> ZeroResult]
BatchResponse(res) == [status |-> 200, kind |-> "result", body |-> res]

\* _shared/cron-auth.ts
\* fault: every request passes the secret check
AcceptEveryRequest(header) == TRUE

verifyCronSecret(header) ==
  IF cronSecret = NULL THEN FALSE ELSE header = cronSecret

\* process-delivery: validateEmail
validateEmail(email) == \E k \in DOMAIN email : email[k] = "@"

\* ------------------------------------------------- the payment webhook
Hooks == {1, 2}
Sessions == {"cs_1"}
UserIds == {"u1", "u9"}
ValidSignature == "t=1,v1=good"
Signatures == {NULL, ValidSignature, "t=1,v1=forged"}
EventTypes == {"checkout.session.completed", "payment_intent.succeeded"}

\* what Stripe (or anyone else) posts to the endpoint
Events ==
  [signature : Signatures, type : EventTypes, userId : UserIds \cup {NULL},
   session : Sessions]

NoEvent ==
  [signature |-> NULL, type |-> NULL, userId |-> NULL, session |-> NULL]

HookResponse(status, text) == [status |-> status, body |-> text]

IdleHook ==
  [pc |-> "idle", event |-> NoEvent, response |-> HookResponse(0, "")]

\* tables after the migrations and one sign-up (handle_new_user)
WebhookInit ==
  /\ payments = [c \in Sessions |-> "none"]
  /\ profiles = [u \in {"u1"} |-> "free"]
  /\ hook = [h \in Hooks |-> IdleHook]
  /\ hookFault = [h \in Hooks |-> FALSE]
  /\ metadata = [c \in Sessions |-> NULL]
  /\ deliveries = 0

\* ------------------------------------------------ the message-detail modal
\* new Date() of isMessageUnlocked, in days
Today == 1

\* the cards of the dashboard, handed to show(): two delivered messages
\* with a video each, one without a video that unlocks today, and one
\* still locked
ModalMessages ==
  {[id |-> "a", scheduled_date |-> Today - 1, status |-> "delivered",
    video_storage_path |-> "videos/a"],
   [id |-> "b", scheduled_date |-> Today + 1, status |-> "delivered",
    video_storage_path |-> "videos/b"],
   [id |-> "c", scheduled_date |-> Today, status |-> "pending",
    video_storage_path |-> NULL],
   [id |-> "d", scheduled_date |-> Today + 1, status |-> "pending",
    video_storage_path |-> NULL]}

NoMessage ==
  [id |-> NULL, scheduled_date |-> 0, status |-> NULL,
   video_storage_path |-> NULL]

\* private overlay = null, message = null, intervalId = null,
\* signedUrl = null, urlExpiresAt = null (0 and -1 stand for null)
ModalInit ==
  /\ modal = [overlay |-> 0, message |-> NoMessage, intervalId |-> 0,
              signedUrl |-> NULL, urlExpiresAt |-> -1]
  /\ browser = [document |-> {}, timers |-> {}, fetches |-> {},
                clock |-> 0, created |-> 0, shows |-> 0]

\* ------------------------------------------------------------------ Init
\* ----------------------------------------------------- the app's service
Clients == {1, 2}
\* webhook-stripe: storage_limit_bytes of a Pro profile, 2147483648 bytes.
\* Byte counts of the app are held in MiB (TLC integers are 32 bits wide).
PRO_STORAGE_LIMIT_MIB == 2048

\* profiles.storage_limit_bytes: DEFAULT 0, set with the tier by the webhook
storage_limit_bytes(tier) ==
  IF tier = "pro" THEN PRO_STORAGE_LIMIT_MIB ELSE 0

\* data.videoSizeBytes of a call with a video (the column has no CHECK):
\* a negative size, and a file that fits the quota once but not twice
VideoSizes == {-1, PRO_STORAGE_LIMIT_MIB \div 2 + 1}

\* cached: storage_used_bytes of authService.currentProfile in that tab
IdleClient ==
  [pc |-> "idle", op |-> "none", tier |-> "free", size |-> 0, id |-> 0,
   result |-> "none", logged |-> FALSE, cached |-> 0]

\* a new profile (handle_new_user) and no message yet
ServiceInit ==
  /\ free_message_used = FALSE
  /\ storage_used_bytes = 0
  /\ user_messages = {}
  /\ blobs = {}
  /\ client = [q \in Clients |-> IdleClient]
  /\ calls = 0

\* process-delivery before the first request
RunInit ==
  /\ cronSecret \in {NULL, SECRET}
  /\ now = 0
  /\ \E w \in Workloads :
       /\ triggers = w.triggers
       /\ messages \in [w.ids -> [status : {"pending"},
                                 scheduled_date : w.dates,
                                 delivery_email : w.emails]]
  /\ delivery_logs = <<>>
  /\ nextLogId = 0
  /\ delivery_batch_locks = {}
  /\ outbox = [m \in Msgs |-> 0]
  /\ pc = [r \in Runs |-> "idle"]
  /\ lockId = [r \in Runs |-> 0]
  /\ batch = [r \in Runs |-> <<>>]
  /\ idx = [r \in Runs |-> 0]
  /\ result = [r \in Runs |-> ZeroResult]
  /\ elapsed = [r \in Runs |-> 0]
  /\ attemptNumber = [r \in Runs |-> 0]
  /\ myRow = [r \in Runs |-> 0]
  /\ seenDelivered = [r \in Runs |-> FALSE]
  /\ caught = [r \in Runs |-> ""]
  /\ dbFault = [r \in Runs |-> "none"]
  /\ accepted = [r \in Runs |-> 0]
  /\ release = [r \in Runs |-> "none"]
  /\ response = [r \in Runs |-> NoResponse]

Init ==
  /\ WebhookInit
  /\ ServiceInit
  /\ RunInit
  /\ ModalInit
  /\ cancelled = [m \in Msgs |-> "none"]

\* ------------------------------------------------------- table operators
\* rows of delivery_logs of one message (positions, in created_at order)
RowsOf(m) == {k \in DOMAIN delivery_logs : delivery_logs[k].message_id = m}

DeliveredRows(m) ==
  {k \in RowsOf(m) : delivery_logs[k].status = "delivered"}

\* process-delivery: checkDeliveryIdempotency.  `.single()` yields data only
\* when exactly one row matches; a failed query yields data = null as well.
checkDeliveryIdempotency(m, outcome) ==
  /\ outcome = "ok"
  /\ Cardinality(DeliveredRows(m)) = 1

\* prepareDelivery: const attemptNumber = (count || 0) + 1
NextAttemptNumber(m, outcome) ==
  IF outcome = "ok" THEN Cardinality(RowsOf(m)) + 1 ELSE 1

NewLogRow(id, m, n) ==
  [id |-> id, message_id |-> m, attempt_number |-> n, status |-> "pending",
   error_message |-> "", created_at |-> now]

\* executeDelivery: update ... .eq('message_id').eq('attempt_number')
MarkDelivered(logs, m, n) ==
  [k \in DOMAIN logs |->
     IF logs[k].message_id = m /\ logs[k].attempt_number = n
     THEN [logs[k] EXCEPT !.status = "delivered"]
     ELSE logs[k]]

\* processMessage catch: update ... .eq('message_id')
\*   .order('created_at', {ascending: false}).limit(1)
MostRecentRow(logs, m) ==
  LET ks == {k \in DOMAIN logs : logs[k].message_id = m}
  IN IF ks = {} THEN 0 ELSE CHOOSE k \in ks : \A j \in ks : j <= k

MarkFailed(logs, m, text) ==
  [k \in DOMAIN logs |->
     IF k = MostRecentRow(logs, m)
     THEN [logs[k] EXCEPT !.status = "failed", !.error_message = text]
     ELSE logs[k]]

\* cleanup-logs: delete ... .lt('created_at', cutoffDate)
SweepLogs(logs, today) ==
  SelectSeq(logs, LAMBDA row : ~(row.created_at < today - RETENTION_DAYS))

\* fault: a selection without the date filter
PendingMessages ==
  {m \in DOMAIN messages : messages[m].status = "pending"}

\* serve: .lte('scheduled_date', today).eq('status', 'pending')
DueMessages ==
  {m \in DOMAIN messages : /\ messages[m].scheduled_date <= now
                           /\ messages[m].status = "pending"}

Min(a, b) == IF a < b THEN a ELSE b

\* serve: .limit(BATCH_SIZE); without ORDER BY the page order is the store's
Pages ==
  LET n == Min(Cardinality(DueMessages), BATCH_SIZE)
      ids == {s \in [1..n -> DueMessages] :
                \A a, b \in 1..n : s[a] = s[b] => a = b}
  IN {[k \in 1..n |-> [id |-> s[k],
                       delivery_email |-> messages[s[k]].delivery_email]] :
        s \in ids}

\* fault: a trigger that lets every insert through
AllowEveryInsert == TRUE

\* enforce_single_batch_lock: RETURN NULL when a (committed) row exists,
\* RETURN NEW otherwise
enforce_single_batch_lock == delivery_batch_locks = {}

\* fault: a loop without the deadline check
DeadlineNever(r) == FALSE

\* fault: a deadline check that allows one more message
DeadlineLate(r) == elapsed[r] > TIMEOUT_MS + MaxMsgTime

\* processMessageBatch: if (Date.now() - startTime > TIMEOUT_MS)
DeadlineExceeded(r) == elapsed[r] > TIMEOUT_MS

CurrentMessage(r) == batch[r][idx[r]]

\* the first failure among the database calls of run r, o being the latest
Fault(r, o) == IF dbFault[r] = "none" /\ o # "ok" THEN o ELSE dbFault[r]

\* ----------------------------------------------------- steps of one run
\* serve: the request arrives, verifyCronSecret, then the lock insert is
\* issued and its BEFORE INSERT trigger evaluated on the committed rows.
\* A request that returns before lockId is set passes through a finally
\* block that does nothing, so its response completes in this step.
\* the handler of run r up to its first await, for a request carrying
\* x-cron-secret = header whose lock insert has outcome o
Serve(r, header, o) ==
  IF ~verifyCronSecret(header)
  THEN /\ response' = [response EXCEPT ![r] = Unauthorized]
       /\ pc' = [pc EXCEPT ![r] = "done"]
       /\ UNCHANGED dbFault
  ELSE /\ dbFault' = [dbFault EXCEPT ![r] = Fault(r, o)]
       /\ IF o = "throw"
          THEN /\ response' = [response EXCEPT ![r] = ServerError]
               /\ pc' = [pc EXCEPT ![r] = "done"]
          ELSE IF o = "error" \/ ~enforce_single_batch_lock
          THEN /\ response' = [response EXCEPT ![r] = Skipped]
               /\ pc' = [pc EXCEPT ![r] = "done"]
          ELSE /\ response' = response
               /\ pc' = [pc EXCEPT ![r] = "insert_lock"]

Request(r) ==
  /\ pc[r] = "idle"
  /\ \A q \in Runs : q < r => pc[q] # "idle"
  /\ triggers > 0
  /\ triggers' = triggers - 1
  /\ \E header \in HeaderValues, o \in DbOutcomes : Serve(r, header, o)
  /\ UNCHANGED <<elsewhere, store, cronSecret, now, lockId, batch, idx, result, elapsed,
                 attemptNumber, myRow, seenDelivered, caught, accepted, release>>

\* the lock row the trigger let through becomes visible; lockId = lockData.id
InsertLock(r) ==
  /\ pc[r] = "insert_lock"
  /\ delivery_batch_locks' = delivery_batch_locks \cup {r}
  /\ lockId' = [lockId EXCEPT ![r] = r]
  /\ pc' = [pc EXCEPT ![r] = "select"]
  /\ UNCHANGED <<elsewhere, messages, delivery_logs, nextLogId, outbox, env, batch, idx,
                 result, elapsed, attemptNumber, myRow, seenDelivered, caught, dbFault,
                 accepted, release, response>>

\* serve: the selection query, then startTime = Date.now()
SelectMessages(r) ==
  /\ pc[r] = "select"
  /\ \E o \in DbOutcomes :
       /\ dbFault' = [dbFault EXCEPT ![r] = Fault(r, o)]
       /\ IF o # "ok"
          THEN /\ response' = [response EXCEPT ![r] = ServerError]
               /\ pc' = [pc EXCEPT ![r] = "finally"]
               /\ UNCHANGED batch
          ELSE \E page \in Pages :
                 /\ batch' = [batch EXCEPT ![r] = page]
                 /\ IF page = <<>>
                    THEN /\ response' = [response EXCEPT
                              ![r] = BatchResponse(ZeroResult)]
                         /\ pc' = [pc EXCEPT ![r] = "finally"]
                    ELSE /\ response' = response
                         /\ pc' = [pc EXCEPT ![r] = "loop"]
  /\ idx' = [idx EXCEPT ![r] = 1]
  /\ UNCHANGED <<elsewhere, store, env, lockId, result, elapsed, attemptNumber, myRow, seenDelivered,
                 caught, accepted, release>>

\* fault: every message that did not fail counted as delivered
FinishCountingSkipped(r, res, status, d) ==
  /\ result' = [result EXCEPT ![r] =
       [res EXCEPT
          !.delivered = IF status # "failed" THEN @ + 1 ELSE @,
          !.failed = IF status = "failed" THEN @ + 1 ELSE @]]
  /\ elapsed' = [elapsed EXCEPT
       ![r] = IF idx[r] < Len(batch[r])
              THEN @ + d + RATE_LIMIT_DELAY_MS
              ELSE @ + d]
  /\ idx' = [idx EXCEPT ![r] = @ + 1]
  /\ pc' = [pc EXCEPT ![r] = "loop"]

\* fault: the loop going on to the next message without delayForRateLimit
FinishWithoutDelay(r, res, status, d) ==
  /\ result' = [result EXCEPT ![r] =
       [res EXCEPT
          !.delivered = IF status = "delivered" THEN @ + 1 ELSE @,
          !.failed = IF status = "failed" THEN @ + 1 ELSE @]]
  /\ elapsed' = [elapsed EXCEPT ![r] = @ + d]
  /\ idx' = [idx EXCEPT ![r] = @ + 1]
  /\ pc' = [pc EXCEPT ![r] = "loop"]

\* processMessageBatch: bookkeeping after processMessage returned `status`
\* having taken d ms (res: the counters before it); delayForRateLimit unless
\* this was the last message.
FinishMessage(r, res, status, d) ==
  /\ result' = [result EXCEPT ![r] =
       [res EXCEPT
          !.delivered = IF status = "delivered" THEN @ + 1 ELSE @,
          !.failed = IF status = "failed" THEN @ + 1 ELSE @]]
  /\ elapsed' = [elapsed EXCEPT
       ![r] = IF idx[r] < Len(batch[r])
              THEN @ + d + RATE_LIMIT_DELAY_MS
              ELSE @ + d]
  /\ idx' = [idx EXCEPT ![r] = @ + 1]
  /\ pc' = [pc EXCEPT ![r] = "loop"]

\* processMessage: an exception inside the try block reaches the catch block
Catch(r, text) ==
  /\ caught' = [caught EXCEPT ![r] = text]
  /\ pc' = [pc EXCEPT ![r] = "catch_log"]

\* an exception that leaves processMessage reaches serve's catch: 500
Escape(r) ==
  /\ response' = [response EXCEPT ![r] = ServerError]
  /\ pc' = [pc EXCEPT ![r] = "finally"]

\* the first failure among the two reads of prepareDelivery
BothOk(checked, counted) ==
  IF checked # "ok" THEN checked ELSE counted

\* processMessageBatch: loop condition, deadline check, processed++, then
\* processMessage -> prepareDelivery: checkDeliveryIdempotency and the count
PrepareDelivery(r) ==
  /\ pc[r] = "loop"
  /\ IF idx[r] > Len(batch[r])
     THEN /\ response' = [response EXCEPT ![r] = BatchResponse(result[r])]
          /\ pc' = [pc EXCEPT ![r] = "finally"]
          /\ UNCHANGED <<result, elapsed, idx, caught, attemptNumber,
                         dbFault>>
     ELSE IF DeadlineExceeded(r)
     THEN /\ result' = [result EXCEPT ![r].stoppedEarly = TRUE]
          /\ response' = [response EXCEPT ![r] = BatchResponse(result'[r])]
          /\ pc' = [pc EXCEPT ![r] = "finally"]
          /\ UNCHANGED <<elapsed, idx, caught, attemptNumber, dbFault>>
     ELSE \E checked \in DbOutcomes, counted \in DbOutcomes, d \in MsgTimes :
            LET res == [result[r] EXCEPT !.processed = @ + 1]
                m == CurrentMessage(r).id
            IN IF checked = "throw"
               THEN /\ result' = [result EXCEPT ![r] = res]
                    /\ Catch(r, "fetch failed")
                    /\ dbFault' = [dbFault EXCEPT ![r] = Fault(r, checked)]
                    /\ UNCHANGED <<elapsed, idx, response, attemptNumber>>
               ELSE IF checkDeliveryIdempotency(m, checked)
               THEN /\ FinishMessage(r, res, "skipped", d)
                    /\ dbFault' = [dbFault EXCEPT ![r] = Fault(r, checked)]
                    /\ UNCHANGED <<caught, response, attemptNumber>>
               ELSE IF counted = "throw"
               THEN /\ result' = [result EXCEPT ![r] = res]
                    /\ Catch(r, "fetch failed")
                    /\ dbFault' = [dbFault EXCEPT
                         ![r] = Fault(r, BothOk(checked, counted))]
                    /\ UNCHANGED <<elapsed, idx, response, attemptNumber>>
               ELSE /\ result' = [result EXCEPT ![r] = res]
                    /\ attemptNumber' = [attemptNumber EXCEPT
                         ![r] = NextAttemptNumber(m, counted)]
                    /\ pc' = [pc EXCEPT ![r] = "insert"]
                    /\ dbFault' = [dbFault EXCEPT
                         ![r] = Fault(r, BothOk(checked, counted))]
                    /\ UNCHANGED <<elapsed, idx, caught, response>>
  /\ myRow' = [myRow EXCEPT ![r] = 0]
  /\ seenDelivered' = [seenDelivered EXCEPT
       ![r] = /\ idx[r] <= Len(batch[r])
              /\ ~DeadlineExceeded(r)
              /\ DeliveredRows(CurrentMessage(r).id) # {}]
  /\ UNCHANGED <<elsewhere, store, env, lockId, batch, accepted, release>>

\* prepareDelivery: insert of the pending row (message_id REFERENCES
\* messages(id): refused for a message that is gone); insertError is rethrown
InsertAttempt(r) ==
  /\ pc[r] = "insert"
  /\ \E o \in DbOutcomes :
       /\ dbFault' = [dbFault EXCEPT ![r] = Fault(r, o)]
       /\ IF o = "ok" /\ CurrentMessage(r).id \in DOMAIN messages
          THEN /\ nextLogId' = nextLogId + 1
               /\ delivery_logs' = Append(delivery_logs,
                    NewLogRow(nextLogId + 1, CurrentMessage(r).id,
                              attemptNumber[r]))
               /\ myRow' = [myRow EXCEPT ![r] = nextLogId + 1]
               /\ pc' = [pc EXCEPT ![r] = "send"]
               /\ UNCHANGED caught
          ELSE /\ Catch(r, "Failed to create delivery log")
               /\ UNCHANGED <<delivery_logs, nextLogId, myRow>>
  /\ UNCHANGED <<elsewhere, messages, delivery_batch_locks, outbox, env, lockId, batch,
                 idx, result, elapsed, attemptNumber, seenDelivered, accepted, release,
                 response>>

\* composeDelivery (buildDeliveryEmail throws ValidationError), then
\* executeDelivery: sendMessage
SendEmail(r) ==
  /\ pc[r] = "send"
  /\ LET m == CurrentMessage(r)
     IN IF ~validateEmail(m.delivery_email)
        THEN /\ Catch(r, "Invalid delivery email")
             /\ UNCHANGED <<outbox, accepted>>
        ELSE \E ok \in BOOLEAN :
               IF ok
               THEN /\ outbox' = [outbox EXCEPT ![m.id] = @ + 1]
                    /\ accepted' = [accepted EXCEPT ![r] = @ + 1]
                    /\ pc' = [pc EXCEPT ![r] = "log_delivered"]
                    /\ UNCHANGED caught
               ELSE /\ Catch(r, "Failed to send email")
                    /\ UNCHANGED <<outbox, accepted>>
  /\ UNCHANGED <<elsewhere, messages, delivery_logs, nextLogId, delivery_batch_locks,
                 env, lockId, batch, idx, result, elapsed, attemptNumber,
                 myRow, seenDelivered, dbFault, release, response>>

\* executeDelivery: delivery_logs -> delivered; the returned error is not read
UpdateLogDelivered(r) ==
  /\ pc[r] = "log_delivered"
  /\ \E o \in DbOutcomes :
       /\ dbFault' = [dbFault EXCEPT ![r] = Fault(r, o)]
       /\ delivery_logs' =
            IF o = "ok"
            THEN MarkDelivered(delivery_logs, CurrentMessage(r).id,
                               attemptNumber[r])
            ELSE delivery_logs
       /\ IF o = "throw"
          THEN Catch(r, "fetch failed")
          ELSE /\ pc' = [pc EXCEPT ![r] = "msg_delivered"]
               /\ UNCHANGED caught
  /\ UNCHANGED <<elsewhere, messages, nextLogId, delivery_batch_locks, outbox, env,
                 lockId, batch, idx, result, elapsed, attemptNumber, myRow, seenDelivered,
                 accepted, release, response>>

\* executeDelivery: messages.status -> delivered; msgError is only logged
UpdateMessageDelivered(r) ==
  /\ pc[r] = "msg_delivered"
  /\ \E o \in DbOutcomes, d \in MsgTimes :
       /\ dbFault' = [dbFault EXCEPT ![r] = Fault(r, o)]
       /\ messages' =
            IF o = "ok" /\ CurrentMessage(r).id \in DOMAIN messages
            THEN [messages EXCEPT ![CurrentMessage(r).id].status = "delivered"]
            ELSE messages
       /\ IF o = "throw"
          THEN /\ Catch(r, "fetch failed")
               /\ UNCHANGED <<result, elapsed, idx>>
          ELSE /\ FinishMessage(r, result[r], "delivered", d)
               /\ UNCHANGED caught
  /\ UNCHANGED <<elsewhere, delivery_logs, nextLogId, delivery_batch_locks, outbox, env,
                 lockId, batch, attemptNumber, myRow, seenDelivered, accepted, release,
                 response>>

\* processMessage catch: the most recent row of the message -> failed
CatchUpdateLog(r) ==
  /\ pc[r] = "catch_log"
  /\ \E o \in DbOutcomes :
       /\ dbFault' = [dbFault EXCEPT ![r] = Fault(r, o)]
       /\ delivery_logs' =
            IF o = "ok"
            THEN MarkFailed(delivery_logs, CurrentMessage(r).id, caught[r])
            ELSE delivery_logs
       /\ IF o = "throw"
          THEN Escape(r)
          ELSE /\ pc' = [pc EXCEPT ![r] = "catch_msg"]
               /\ UNCHANGED response
  /\ UNCHANGED <<elsewhere, messages, nextLogId, delivery_batch_locks, outbox, env,
                 lockId, batch, idx, result, elapsed, attemptNumber, myRow, seenDelivered,
                 caught, accepted, release>>

\* processMessage catch: messages.status -> failed, return {status: 'failed'}
CatchUpdateMessage(r) ==
  /\ pc[r] = "catch_msg"
  /\ \E o \in DbOutcomes, d \in MsgTimes :
       /\ dbFault' = [dbFault EXCEPT ![r] = Fault(r, o)]
       /\ messages' =
            IF o = "ok" /\ CurrentMessage(r).id \in DOMAIN messages
            THEN [messages EXCEPT ![CurrentMessage(r).id].status = "failed"]
            ELSE messages
       /\ IF o = "throw"
          THEN /\ Escape(r)
               /\ UNCHANGED <<result, elapsed, idx>>
          ELSE /\ FinishMessage(r, result[r], "failed", d)
               /\ UNCHANGED response
  /\ UNCHANGED <<elsewhere, delivery_logs, nextLogId, delivery_batch_locks, outbox, env,
                 lockId, batch, attemptNumber, myRow, seenDelivered, caught, accepted,
                 release>>

\* fault: a delete that matches no row
ReleaseNothing(locks, id) == locks

\* fault: a delete without its filter on the lock id
ReleaseEveryLock(locks, id) == {}

\* delivery_batch_locks: delete ... .eq('id', lockId)
ReleaseLock(locks, id) == locks \ {id}

\* serve finally: if (lockId) delete the lock row; the response completes
Finally(r) ==
  /\ pc[r] = "finally"
  /\ \E o \in DbOutcomes :
       IF lockId[r] = 0
       THEN UNCHANGED <<delivery_batch_locks, release>>
       ELSE /\ delivery_batch_locks' =
                 IF o = "ok"
                 THEN ReleaseLock(delivery_batch_locks, lockId[r])
                 ELSE delivery_batch_locks
            /\ release' = [release EXCEPT ![r] = o]
  /\ pc' = [pc EXCEPT ![r] = "done"]
  /\ batch' = [batch EXCEPT ![r] = <<>>]
  /\ idx' = [idx EXCEPT ![r] = 0]
  /\ result' = [result EXCEPT ![r] = ZeroResult]
  /\ elapsed' = [elapsed EXCEPT ![r] = 0]
  /\ attemptNumber' = [attemptNumber EXCEPT ![r] = 0]
  /\ myRow' = [myRow EXCEPT ![r] = 0]
  /\ seenDelivered' = [seenDelivered EXCEPT ![r] = FALSE]
  /\ caught' = [caught EXCEPT ![r] = ""]
  /\ dbFault' = [dbFault EXCEPT ![r] = "none"]
  /\ accepted' = [accepted EXCEPT ![r] = 0]
  /\ UNCHANGED <<elsewhere, messages, delivery_logs, nextLogId, outbox, env, lockId,
                 response>>

\* cleanup-logs serve: verifyCronSecret, then delete rows older than 90 days;
\* the status it answers and the ledger it leaves, for a request carrying
\* x-cron-secret = header whose delete has outcome o
cleanupLogs(header, o) ==
  IF ~verifyCronSecret(header)
  THEN [status |-> 401, logs |-> delivery_logs]
  ELSE IF o = "ok"
  THEN [status |-> 200, logs |-> SweepLogs(delivery_logs, now)]
  ELSE [status |-> 500, logs |-> delivery_logs]

CleanupLogs ==
  /\ \E header \in HeaderValues, o \in DbOutcomes :
       delivery_logs' = cleanupLogs(header, o).logs
  /\ delivery_logs' # delivery_logs
  /\ UNCHANGED <<elsewhere, messages, nextLogId, delivery_batch_locks, outbox, env, pc,
                 locals>>

\* the calendar advances past one retention window; no request lives that
\* long (an Edge Function request is killed after 60 s)
AdvanceTime ==
  /\ now < MaxJumps * (RETENTION_DAYS + 1)
  /\ \A r \in Runs : pc[r] \in {"idle", "done"}
  /\ now' = now + RETENTION_DAYS + 1
  /\ UNCHANGED <<elsewhere, cronSecret, triggers, store, pc, locals>>

Next ==
  \/ \E r \in Runs : Request(r)
  \/ \E r \in Runs : InsertLock(r)
  \/ \E r \in Runs : SelectMessages(r)
  \/ \E r \in Runs : PrepareDelivery(r)
  \/ \E r \in Runs : InsertAttempt(r)
  \/ \E r \in Runs : SendEmail(r)
  \/ \E r \in Runs : UpdateLogDelivered(r)
  \/ \E r \in Runs : UpdateMessageDelivered(r)
  \/ \E r \in Runs : CatchUpdateLog(r)
  \/ \E r \in Runs : CatchUpdateMessage(r)
  \/ \E r \in Runs : Finally(r)
  \/ CleanupLogs
  \/ AdvanceTime

Spec == Init /\ [][Next]_vars

\* ------------------------------------------------- repeated scheduled runs

\* the external scheduler calls process-delivery again (daily trigger): the
\* next request starts with fresh handler locals.  Rows are never removed
\* here, so the ledger capacity bounds the number of runs explored.
Reschedule(r) ==
  /\ pc[r] = "done"
  /\ Len(delivery_logs) < MaxLogs
  /\ pc' = [pc EXCEPT ![r] = "idle"]
  /\ triggers' = triggers + 1
  /\ response' = [response EXCEPT ![r] = NoResponse]
  /\ lockId' = [lockId EXCEPT ![r] = 0]
  /\ release' = [release EXCEPT ![r] = "none"]
  /\ dbFault' = [dbFault EXCEPT ![r] = "none"]
  /\ UNCHANGED <<elsewhere, store, cronSecret, now, batch, idx, result,
                 elapsed, attemptNumber, myRow, seenDelivered, caught,
                 accepted>>

\* one scheduler, one request at a time, one due message
LiveInit ==
  /\ Init
  /\ cronSecret = SECRET
  /\ DOMAIN messages = {"m1"}
  /\ \A m \in DOMAIN messages : messages[m].scheduled_date <= now

LiveNext ==
  \/ Request(1)
  \/ InsertLock(1)
  \/ SelectMessages(1)
  \/ PrepareDelivery(1)
  \/ InsertAttempt(1)
  \/ SendEmail(1)
  \/ UpdateLogDelivered(1)
  \/ UpdateMessageDelivered(1)
  \/ CatchUpdateLog(1)
  \/ CatchUpdateMessage(1)
  \/ Finally(1)
  \/ Reschedule(1)

\* a step of run r in which no database call of the run has failed so far
Sound(r) == dbFault'[r] = "none"

\* every awaited call answers and the scheduler keeps calling (weak
\* fairness); a database call or an authenticated request that is tried
\* again and again succeeds again and again (strong fairness)
LiveFairness ==
  /\ WF_vars(LiveNext)
  /\ SF_vars(Request(1) /\ pc'[1] = "insert_lock")
  /\ SF_vars(SelectMessages(1) /\ Sound(1))
  /\ SF_vars(PrepareDelivery(1) /\ Sound(1))
  /\ SF_vars(InsertAttempt(1) /\ Sound(1))
  /\ SF_vars(UpdateLogDelivered(1) /\ Sound(1))
  /\ SF_vars(UpdateMessageDelivered(1) /\ Sound(1))
  /\ SF_vars(CatchUpdateLog(1) /\ Sound(1))
  /\ SF_vars(CatchUpdateMessage(1) /\ Sound(1))
  /\ SF_vars(Finally(1) /\ release'[1] = "ok")

LiveSpec == LiveInit /\ [][LiveNext]_vars /\ LiveFairness

\* ------------------------------------------- steps of webhook-stripe serve

\* everything process-delivery and cleanup-logs read or write
orchestrator == <<env, store, pc, locals>>

\* fault: a verification that accepts every signature
AcceptAnySignature(signature) == TRUE

\* stripe.webhooks.constructEventAsync(body, signature, endpointSecret):
\* resolves for the signature Stripe computed, throws otherwise
constructEvent(signature) == signature = ValidSignature

\* the handler returns a Response
Answer(e, status, text) ==
  [pc |-> "done", event |-> e, response |-> HookResponse(status, text)]

\* the handler awaits its next call
Await(e, at) ==
  [pc |-> at, event |-> e, response |-> HookResponse(0, "")]

\* an awaited call rejects: nothing catches it, the server answers 500
Unhandled(e) == Answer(e, 500, "Internal Server Error")

\* a checkout event Stripe signed: it carries the metadata the session was
\* created with
SignedByStripe(e) ==
  /\ e.signature = ValidSignature
  /\ e.type = "checkout.session.completed"

\* serve: signature header, constructEventAsync, event type, metadata userId
Receive(h) ==
  /\ hook[h].pc \in {"idle", "done"}
  /\ deliveries < MaxDeliveries
  /\ deliveries' = deliveries + 1
  /\ \E e \in Events :
       /\ SignedByStripe(e) => e.userId = metadata[e.session]
       /\ hook' = [hook EXCEPT ![h] =
         IF e.signature = NULL
         THEN Answer(e, 400, "Missing stripe-signature header")
         ELSE IF ~constructEvent(e.signature)
         THEN Answer(e, 400, "Invalid signature")
         ELSE IF e.type # "checkout.session.completed"
         THEN Answer(e, 200, "ignored")
         ELSE IF e.userId = NULL
         THEN Answer(e, 400, "Missing userId in metadata")
         ELSE Await(e, "select")]
  /\ hookFault' = [hookFault EXCEPT ![h] = FALSE]
  /\ UNCHANGED <<payments, profiles, metadata, orchestrator, service,
                 detail, cancelled>>

\* fault: a lookup result that is never taken for a processed payment
NeverProcessed(existingPayment) == FALSE

\* if (existingPayment) { if (existingPayment.status === 'completed') ...
AlreadyProcessed(existingPayment) == existingPayment = "completed"

\* payments select by checkout session with .single(): a failed read or no
\* row both give existingPayment = null
SelectPayment(h) ==
  /\ hook[h].pc = "select"
  /\ \E o \in DbOutcomes :
       LET e == hook[h].event
           existingPayment == IF o = "ok" THEN payments[e.session]
                              ELSE "none"
       IN /\ hook' = [hook EXCEPT ![h] =
               IF o = "throw" THEN Unhandled(e)
               ELSE IF AlreadyProcessed(existingPayment)
               THEN Answer(e, 200, "already_processed")
               ELSE IF existingPayment # "none"
               THEN Await(e, "profile")
               ELSE Await(e, "insert")]
          /\ hookFault' = [hookFault EXCEPT ![h] = @ \/ o # "ok"]
  /\ UNCHANGED <<payments, profiles, deliveries, metadata, orchestrator, service,
                 detail, cancelled>>

\* payments insert (status 'pending'); stripe_payment_intent_id is UNIQUE,
\* so a second row for the same checkout is refused, and user_id REFERENCES
\* profiles(id), so a row for an unknown user is refused
InsertPayment(h) ==
  /\ hook[h].pc = "insert"
  /\ \E o \in DbOutcomes :
       LET e == hook[h].event
       IN IF o = "throw"
          THEN /\ hook' = [hook EXCEPT ![h] = Unhandled(e)]
               /\ UNCHANGED payments
          ELSE IF \/ o = "error"
                  \/ payments[e.session] # "none"
                  \/ e.userId \notin DOMAIN profiles
          THEN /\ hook' = [hook EXCEPT ![h] =
                    Answer(e, 500, "Failed to record payment")]
               /\ UNCHANGED payments
          ELSE /\ payments' = [payments EXCEPT ![e.session] = "pending"]
               /\ hook' = [hook EXCEPT ![h] = Await(e, "profile")]
  /\ hookFault' = [hookFault EXCEPT ![h] = @ \/ hook'[h].pc = "done"]
  /\ UNCHANGED <<profiles, deliveries, metadata, orchestrator, service,
                 detail, cancelled>>

\* fault: an update that reports success and changes no profile
TierLeftAlone(userId) == profiles

\* the profiles table after update({tier: 'pro'}).eq('id', userId)
UpgradeTier(userId) ==
  [u \in DOMAIN profiles |-> IF u = userId THEN "pro" ELSE profiles[u]]

\* profiles update tier = 'pro' where id = userId
UpdateProfile(h) ==
  /\ hook[h].pc = "profile"
  /\ \E o \in DbOutcomes :
       LET e == hook[h].event
       IN IF o = "throw"
          THEN /\ hook' = [hook EXCEPT ![h] = Unhandled(e)]
               /\ UNCHANGED profiles
          ELSE IF o = "error"
          THEN /\ hook' = [hook EXCEPT ![h] = Await(e, "mark_failed")]
               /\ UNCHANGED profiles
          ELSE /\ profiles' = UpgradeTier(e.userId)
               /\ hook' = [hook EXCEPT ![h] = Await(e, "complete")]
  /\ hookFault' = [hookFault EXCEPT ![h] = @ \/ hook'[h].pc # "complete"]
  /\ UNCHANGED <<payments, deliveries, metadata, orchestrator, service,
                 detail, cancelled>>

\* profileError: payments update status = 'failed' by checkout session (its
\* result is not read), then 500
MarkPaymentFailed(h) ==
  /\ hook[h].pc = "mark_failed"
  /\ \E o \in DbOutcomes :
       LET e == hook[h].event
       IN /\ payments' =
               IF o = "ok" /\ payments[e.session] # "none"
               THEN [payments EXCEPT ![e.session] = "failed"]
               ELSE payments
          /\ hook' = [hook EXCEPT ![h] =
               IF o = "throw" THEN Unhandled(e)
               ELSE Answer(e, 500, "Failed to provision Pro tier")]
          /\ hookFault' = [hookFault EXCEPT ![h] = @ \/ o # "ok"]
  /\ UNCHANGED <<profiles, deliveries, metadata, orchestrator, service,
                 detail, cancelled>>

\* payments update status = 'completed' by checkout session, then 200
CompletePayment(h) ==
  /\ hook[h].pc = "complete"
  /\ \E o \in DbOutcomes :
       LET e == hook[h].event
       IN /\ payments' =
               IF o = "ok" /\ payments[e.session] # "none"
               THEN [payments EXCEPT ![e.session] = "completed"]
               ELSE payments
          /\ hook' = [hook EXCEPT ![h] =
               IF o = "throw" THEN Unhandled(e)
               ELSE IF o = "error"
               THEN Answer(e, 500, "Failed to update payment status")
               ELSE Answer(e, 200, "completed")]
          /\ hookFault' = [hookFault EXCEPT ![h] = @ \/ o # "ok"]
  /\ UNCHANGED <<profiles, deliveries, metadata, orchestrator, service,
                 detail, cancelled>>

\* create-checkout serve: profile lookup (unknown user or Pro user: 400),
\* Stripe session with metadata.userId, then the payments insert (status
\* 'pending') whose error is only logged.  The session id is new, so this
\* precedes every delivery Stripe signs for it.  The inserted row carries no
\* stripe_payment_intent_id: where the NOT NULL constraint of the first
\* migration is in force the insert takes the error branch.
CreateCheckout(c) ==
  /\ metadata[c] = NULL
  /\ \E u \in UserIds, read \in DbOutcomes, stripe \in {"ok", "throw"},
        o \in DbOutcomes :
       LET created == /\ read = "ok"
                      /\ u \in DOMAIN profiles
                      /\ profiles[u] # "pro"
                      /\ stripe = "ok"
       IN /\ metadata' = IF created THEN [metadata EXCEPT ![c] = u]
                         ELSE metadata
          /\ payments' = IF created /\ o = "ok"
                         THEN [payments EXCEPT ![c] = "pending"]
                         ELSE payments
  /\ UNCHANGED <<profiles, hook, deliveries, hookFault, orchestrator, service,
                 detail, cancelled>>

\* the webhook on its own: no delivery run in progress
WebhookStart ==
  /\ Init
  /\ cronSecret = SECRET
  /\ triggers = 2
  /\ \A m \in DOMAIN messages :
       /\ messages[m].scheduled_date = 0
       /\ messages[m].delivery_email = ValidEmail

WebhookNext ==
  \/ \E c \in Sessions : CreateCheckout(c)
  \/ \E h \in Hooks : Receive(h)
  \/ \E h \in Hooks : SelectPayment(h)
  \/ \E h \in Hooks : InsertPayment(h)
  \/ \E h \in Hooks : UpdateProfile(h)
  \/ \E h \in Hooks : MarkPaymentFailed(h)
  \/ \E h \in Hooks : CompletePayment(h)

WebhookSpec == WebhookStart /\ [][WebhookNext]_vars

\* ------------------------------------------ steps of the app's MessageService

\* everything the edge functions read or write
backend ==
  <<payments, profiles, hook, deliveries, hookFault, metadata, orchestrator,
    detail, cancelled>>

\* fault: the counter updated without the floor at zero
AddDelta(used, delta) == used + delta

\* update_storage_used: storage_used_bytes = GREATEST(0, used + delta)
update_storage_used(used, delta) ==
  IF used + delta < 0 THEN 0 ELSE used + delta

\* messages delete ... .eq('id', id)
WithoutMessage(id) == {row \in user_messages : row.id # id}

\* the call of tab q returns `outcome`
Return(q, outcome) == [client[q] EXCEPT !.pc = "done", !.result = outcome]

\* the call of tab q awaits its next request
Goto(q, at) == [client[q] EXCEPT !.pc = at]

\* uploadVideo: Pro only, and validateVideo refuses a file larger than
\* storage_limit_bytes - storage_used_bytes of the cached profile
uploadAccepts(tier, cached, size) ==
  /\ tier = "pro"
  /\ ~(size > storage_limit_bytes(tier) - cached)

\* the form of a Pro user uploads its video (uploadVideo), then calls
\* createMessage, which checks the tier on the cached profile.  The cache can
\* be older than the row, so it may still show the free message as unused.
BeginCreate(q) ==
  /\ client[q].pc \in {"idle", "done"}
  /\ calls < MaxCalls
  /\ calls' = calls + 1
  /\ \E size \in {0} \cup VideoSizes, used \in {free_message_used, FALSE} :
       LET tier == profiles["u1"]
           cached == client[q].cached
           overQuota == /\ tier = "pro"
                        /\ size # 0
                        /\ ~uploadAccepts(tier, cached, size)
           refused == tier = "free" /\ (used \/ size # 0)
           call == [pc |-> "insert", op |-> "create", tier |-> tier,
                    size |-> size, id |-> calls + 1, result |-> "none",
                    logged |-> FALSE, cached |-> cached]
       IN /\ client' = [client EXCEPT
               ![q] = IF overQuota
                      THEN [call EXCEPT !.op = "upload", !.pc = "done",
                                        !.result = "failure"]
                      ELSE IF refused
                      THEN [call EXCEPT !.pc = "done", !.result = "failure"]
                      ELSE call]
          /\ blobs' = IF ~refused /\ ~overQuota /\ size # 0
                      THEN blobs \cup {calls + 1}
                      ELSE blobs
  /\ UNCHANGED <<free_message_used, storage_used_bytes, user_messages,
                 backend>>

\* createMessage: messages insert ... .select().single()
InsertMessage(q) ==
  /\ client[q].pc = "insert"
  /\ \E o \in DbOutcomes :
       IF o = "ok"
       THEN /\ user_messages' = user_messages \cup
                 {[id |-> client[q].id, size |-> client[q].size]}
            /\ client' = [client EXCEPT ![q] =
                 IF client[q].tier = "free" THEN Goto(q, "flip")
                 ELSE IF client[q].size # 0 THEN Goto(q, "storage")
                 ELSE Return(q, "success")]
       ELSE /\ UNCHANGED user_messages
            /\ client' = [client EXCEPT ![q] =
                 Return(q, IF o = "throw" THEN "exception" ELSE "failure")]
  /\ UNCHANGED <<free_message_used, storage_used_bytes, blobs, calls,
                 backend>>

\* createMessage: profiles update free_message_used = true where it is
\* false; no row back means the free message is taken
FlipFreeMessage(q) ==
  /\ client[q].pc = "flip"
  /\ \E o \in DbOutcomes :
       IF o = "throw"
       THEN /\ client' = [client EXCEPT ![q] = Return(q, "exception")]
            /\ UNCHANGED free_message_used
       ELSE IF o = "ok" /\ ~free_message_used
       THEN /\ free_message_used' = TRUE
            /\ client' = [client EXCEPT ![q] = Return(q, "success")]
       ELSE /\ client' = [client EXCEPT ![q] = Goto(q, "rollback")]
            /\ UNCHANGED free_message_used
  /\ UNCHANGED <<storage_used_bytes, user_messages, blobs, calls, backend>>

\* createMessage: rollback, the delete of the message just created; its
\* result is not read
RollbackMessage(q) ==
  /\ client[q].pc = "rollback"
  /\ \E o \in DbOutcomes :
       /\ user_messages' = IF o = "ok" THEN WithoutMessage(client[q].id)
                           ELSE user_messages
       /\ client' = [client EXCEPT ![q] =
            Return(q, IF o = "throw" THEN "exception" ELSE "failure")]
  /\ UNCHANGED <<free_message_used, storage_used_bytes, blobs, calls,
                 backend>>

\* refreshProfile: the cached profile is replaced by the row, or kept when
\* the read fails
Refreshed(call, used, fresh) ==
  IF fresh THEN [call EXCEPT !.cached = used] ELSE call

\* createMessage: rpc update_storage_used(+videoSizeBytes) inside try, then
\* refreshProfile
UpdateStorage(q) ==
  /\ client[q].pc = "storage"
  /\ \E o \in DbOutcomes, fresh \in BOOLEAN :
       IF o = "ok"
       THEN /\ storage_used_bytes' =
                 update_storage_used(storage_used_bytes, client[q].size)
            /\ client' = [client EXCEPT ![q] =
                 Refreshed(Return(q, "success"), storage_used_bytes', fresh)]
       ELSE /\ UNCHANGED storage_used_bytes
            /\ client' = [client EXCEPT ![q] = Goto(q, "remove_blob")]
  /\ UNCHANGED <<free_message_used, user_messages, blobs, calls, backend>>

\* createMessage catch: storage remove of the uploaded video;
\* COMPENSATING_DELETE_FAILED is logged when it returns an error
RemoveBlob(q) ==
  /\ client[q].pc = "remove_blob"
  /\ \E o \in DbOutcomes :
       /\ blobs' = IF o = "ok" THEN blobs \ {client[q].id} ELSE blobs
       /\ client' = [client EXCEPT ![q] =
            IF o = "throw" THEN Return(q, "exception")
            ELSE [Goto(q, "delete_message") EXCEPT !.logged = (o = "error")]]
  /\ UNCHANGED <<free_message_used, storage_used_bytes, user_messages, calls,
                 backend>>

\* createMessage catch: delete of the message record (result not read),
\* then failure
DeleteMessage(q) ==
  /\ client[q].pc = "delete_message"
  /\ \E o \in DbOutcomes :
       /\ user_messages' = IF o = "ok" THEN WithoutMessage(client[q].id)
                           ELSE user_messages
       /\ client' = [client EXCEPT ![q] =
            Return(q, IF o = "throw" THEN "exception" ELSE "failure")]
  /\ UNCHANGED <<free_message_used, storage_used_bytes, blobs, calls,
                 backend>>

\* cancelMessage: fetch of the user's pending message
BeginCancel(q) ==
  /\ client[q].pc \in {"idle", "done"}
  /\ calls < MaxCalls
  /\ calls' = calls + 1
  /\ \E id \in 1..MaxCalls, o \in DbOutcomes :
       LET found == {row \in user_messages : row.id = id}
           call == [pc |-> "cancel_delete", op |-> "cancel",
                    tier |-> profiles["u1"], size |-> 0, id |-> id,
                    result |-> "none", logged |-> FALSE,
                    cached |-> client[q].cached]
       IN client' = [client EXCEPT ![q] =
            IF o = "throw"
            THEN [call EXCEPT !.pc = "done", !.result = "exception"]
            ELSE IF o = "error" \/ found = {}
            THEN [call EXCEPT !.pc = "done", !.result = "failure"]
            ELSE [call EXCEPT !.size = (CHOOSE row \in found : TRUE).size]]
  /\ UNCHANGED <<free_message_used, storage_used_bytes, user_messages, blobs,
                 backend>>

\* cancelMessage: messages delete by id
CancelDelete(q) ==
  /\ client[q].pc = "cancel_delete"
  /\ \E o \in DbOutcomes :
       IF o = "ok"
       THEN /\ user_messages' = WithoutMessage(client[q].id)
            /\ client' = [client EXCEPT ![q] =
                 IF client[q].size # 0 THEN Goto(q, "cancel_blob")
                 ELSE Return(q, "success")]
       ELSE /\ UNCHANGED user_messages
            /\ client' = [client EXCEPT ![q] =
                 Return(q, IF o = "throw" THEN "exception" ELSE "failure")]
  /\ UNCHANGED <<free_message_used, storage_used_bytes, blobs, calls,
                 backend>>

\* cancelMessage: storage remove of the video (result not read)
CancelBlob(q) ==
  /\ client[q].pc = "cancel_blob"
  /\ \E o \in DbOutcomes :
       /\ blobs' = IF o = "ok" THEN blobs \ {client[q].id} ELSE blobs
       /\ client' = [client EXCEPT ![q] =
            IF o = "throw" THEN Return(q, "exception")
            ELSE Goto(q, "cancel_storage")]
  /\ UNCHANGED <<free_message_used, storage_used_bytes, user_messages, calls,
                 backend>>

\* cancelMessage: rpc update_storage_used(-video_size_bytes), result not
\* read, then refreshProfile
CancelStorage(q) ==
  /\ client[q].pc = "cancel_storage"
  /\ \E o \in DbOutcomes, fresh \in BOOLEAN :
       /\ storage_used_bytes' =
            IF o = "ok"
            THEN update_storage_used(storage_used_bytes, -client[q].size)
            ELSE storage_used_bytes
       /\ client' = [client EXCEPT ![q] =
            IF o = "throw" THEN Return(q, "exception")
            ELSE Refreshed(Return(q, "success"), storage_used_bytes', fresh)]
  /\ UNCHANGED <<free_message_used, user_messages, blobs, calls, backend>>

\* the app on its own, for a free or a Pro user
ServiceStart ==
  /\ RunInit
  /\ ServiceInit
  /\ cronSecret = SECRET
  /\ triggers = 2
  /\ \A m \in DOMAIN messages :
       /\ messages[m].scheduled_date = 0
       /\ messages[m].delivery_email = ValidEmail
  /\ payments = [c \in Sessions |-> "none"]
  /\ profiles \in [{"u1"} -> {"free", "pro"}]
  /\ hook = [h \in Hooks |-> IdleHook]
  /\ hookFault = [h \in Hooks |-> FALSE]
  /\ metadata = [c \in Sessions |-> NULL]
  /\ deliveries = 0
  /\ ModalInit
  /\ cancelled = [m \in Msgs |-> "none"]

ServiceNext ==
  \/ \E q \in Clients : BeginCreate(q)
  \/ \E q \in Clients : InsertMessage(q)
  \/ \E q \in Clients : FlipFreeMessage(q)
  \/ \E q \in Clients : RollbackMessage(q)
  \/ \E q \in Clients : UpdateStorage(q)
  \/ \E q \in Clients : RemoveBlob(q)
  \/ \E q \in Clients : DeleteMessage(q)
  \/ \E q \in Clients : BeginCancel(q)
  \/ \E q \in Clients : CancelDelete(q)
  \/ \E q \in Clients : CancelBlob(q)
  \/ \E q \in Clients : CancelStorage(q)

ServiceSpec == ServiceStart /\ [][ServiceNext]_vars

\* ------------------------------- cancelMessage beside a delivery run

\* cancelMessage: fetch of the user's own pending message
CancelFetch(m) ==
  /\ cancelled[m] = "none"
  /\ \E o \in DbOutcomes :
       cancelled' = [cancelled EXCEPT ![m] =
         IF /\ o = "ok"
            /\ m \in DOMAIN messages
            /\ messages[m].status = "pending"
         THEN "fetched"
         ELSE "failure"]
  /\ UNCHANGED <<payments, profiles, hook, deliveries, hookFault, metadata,
                 orchestrator, service, detail>>

\* rows the delete removes: the policy "Users can delete own pending
\* messages" lets it see the message only while its status is pending
Deletable(m) ==
  IF m \in DOMAIN messages /\ messages[m].status = "pending" THEN {m} ELSE {}

\* cancelMessage: messages delete by id (ON DELETE CASCADE removes the
\* attempt rows of a removed message); the scheduled messages carry no
\* video, so success is returned right after a delete without error
CancelRemove(m) ==
  /\ cancelled[m] = "fetched"
  /\ \E o \in DbOutcomes :
       LET gone == IF o = "ok" THEN Deletable(m) ELSE {}
       IN /\ messages' = [k \in DOMAIN messages \ gone |-> messages[k]]
          /\ delivery_logs' =
               SelectSeq(delivery_logs, LAMBDA row : row.message_id \notin gone)
          /\ cancelled' = [cancelled EXCEPT ![m] =
               IF o = "ok" THEN "success" ELSE "failure"]
  /\ UNCHANGED <<payments, profiles, hook, deliveries, hookFault, metadata,
                 service, detail, nextLogId, delivery_batch_locks, outbox,
                 env, pc, locals>>

\* one delivery run with the user cancelling the due message
CancelStart ==
  /\ Init
  /\ cronSecret = SECRET
  /\ DOMAIN messages = {"m1"}
  /\ \A m \in DOMAIN messages : messages[m].scheduled_date <= now

CancelNext ==
  \/ Request(1)
  \/ InsertLock(1)
  \/ SelectMessages(1)
  \/ PrepareDelivery(1)
  \/ InsertAttempt(1)
  \/ SendEmail(1)
  \/ UpdateLogDelivered(1)
  \/ UpdateMessageDelivered(1)
  \/ CatchUpdateLog(1)
  \/ CatchUpdateMessage(1)
  \/ Finally(1)
  \/ \E m \in Msgs : CancelFetch(m)
  \/ \E m \in Msgs : CancelRemove(m)

CancelSpec == CancelStart /\ [][CancelNext]_vars

\* --------------------------------------- steps of the message-detail modal

\* everything outside the page
offpage ==
  <<payments, profiles, hook, deliveries, hookFault, metadata, orchestrator,
    service, cancelled>>

\* getSignedUrl(path, 604800): lifetime of a signed URL, in seconds
SIGNED_URL_SECONDS == 604800

\* isMessageUnlocked: scheduled_date <= today || status === 'delivered'
isMessageUnlocked(m) == m.scheduled_date <= Today \/ m.status = "delivered"

\* isUrlExpired: no cached URL, or urlExpiresAt < new Date()
isUrlExpired(md, clock) ==
  \/ md.signedUrl = NULL
  \/ md.urlExpiresAt = -1
  \/ md.urlExpiresAt < clock

\* stopCountdown: clearInterval(intervalId) when intervalId is not null
stopCountdown(md, timers) ==
  IF md.intervalId # 0 THEN timers \ {md.intervalId} ELSE timers

\* overlay.remove() when this.overlay is not null
removeOverlay(md, doc) == {el \in doc : el.id # md.overlay}

\* hide(): stopCountdown, overlay.remove(), overlay = null; the cached URL and
\* this.message stay
hide(md, br) ==
  [md |-> [md EXCEPT !.intervalId = 0, !.overlay = 0],
   br |-> [br EXCEPT !.timers = stopCountdown(md, br.timers),
                     !.document = removeOverlay(md, br.document)]]

\* createOverlayBase + innerHTML: a new element appended to document.body and
\* stored in this.overlay.  The video section is rendered for this.message:
\* the fallback when videoError, else a player whose src is this.signedUrl.
mount(md, br, videoError) ==
  LET path == md.message.video_storage_path
      video == IF path = NULL THEN "none"
               ELSE IF videoError THEN "unavailable" ELSE "player"
      el == [id |-> br.created + 1, message |-> md.message.id,
             path |-> path, video |-> video,
             src |-> IF video = "player" THEN md.signedUrl ELSE NULL]
  IN [md |-> [md EXCEPT !.overlay = el.id],
      br |-> [br EXCEPT !.document = @ \cup {el}, !.created = el.id]]

\* startCountdown: window.setInterval(..., 1000), id kept in intervalId
startCountdown(md, br) ==
  [md |-> [md EXCEPT !.intervalId = br.created + 1],
   br |-> [br EXCEPT !.timers = @ \cup {br.created + 1},
                     !.created = @ + 1]]

\* show(message): hide(), this.message = message, render() up to its first
\* await, then startCountdown() for a locked message.  renderUnlocked awaits
\* getSignedUrl only for a message with a video whose cached URL is expired;
\* otherwise the overlay is mounted before show() returns.
Show(m) ==
  /\ browser.shows < MaxShows
  /\ LET h == hide(modal, browser)
         md == [h.md EXCEPT !.message = m]
         br == [h.br EXCEPT !.shows = @ + 1]
         after ==
           IF ~isMessageUnlocked(m)
           THEN LET locked == mount(md, br, FALSE)
                IN startCountdown(locked.md, locked.br)
           ELSE IF /\ m.video_storage_path # NULL
                   /\ isUrlExpired(md, br.clock)
           THEN [md |-> md,
                 br |-> [br EXCEPT
                   !.fetches = @ \cup {[n |-> br.created + 1,
                                        path |-> m.video_storage_path]},
                   !.created = @ + 1]]
           ELSE mount(md, br, FALSE)
     IN /\ modal' = after.md
        /\ browser' = after.br
  /\ UNCHANGED offpage

\* renderUnlocked after the await: getSignedUrl resolved with a URL (cached
\* with its expiry), resolved with null or rejected (videoError); then the
\* overlay is mounted for whatever this.message is now
ResolveSignedUrl(n) ==
  \E f \in browser.fetches, o \in {"url", "null", "throw"} :
    /\ f.n = n
    /\ LET md == IF o = "url"
                 THEN [modal EXCEPT
                         !.signedUrl = f.path,
                         !.urlExpiresAt = browser.clock + SIGNED_URL_SECONDS]
                 ELSE modal
           br == [browser EXCEPT !.fetches = @ \ {f}]
           after == mount(md, br, o # "url")
       IN /\ modal' = after.md
          /\ browser' = after.br
    /\ UNCHANGED offpage

\* hide(): the back button of the overlay, or handleDelete after a cancel
Hide ==
  /\ LET after == hide(modal, browser)
     IN /\ modal' = after.md
        /\ browser' = after.br
  /\ UNCHANGED offpage

\* time passes (Date.now), one URL lifetime at a time
Tick ==
  /\ browser.clock < MaxTicks * SIGNED_URL_SECONDS
  /\ browser' = [browser EXCEPT !.clock = @ + SIGNED_URL_SECONDS]
  /\ UNCHANGED <<modal, offpage>>

\* the modal on its own
ModalStart ==
  /\ Init
  /\ cronSecret = SECRET
  /\ triggers = 2
  /\ \A m \in DOMAIN messages :
       /\ messages[m].scheduled_date = 0
       /\ messages[m].delivery_email = ValidEmail

ModalNext ==
  \/ \E m \in ModalMessages : Show(m)
  \/ \E n \in 1..(3 * MaxShows) : ResolveSignedUrl(n)
  \/ Hide
  \/ Tick

ModalSpec == ModalStart /\ [][ModalNext]_vars

\* ================================================================ claims
\* C1: across any sequence of orchestrator runs, with ledger or status
\* writes failing and the retention sweep interleaved, the transport accepts
\* at most one email per message.
AtMostOneEmail == \A m \in Msgs : outbox[m] <= 1

\* C2: for every message the ledger holds at most one attempt row with
\* status delivered.
AtMostOneDeliveredRow == \A m \in Msgs : Cardinality(DeliveredRows(m)) <= 1

\* C3: at most one run holds the batch lock at any time; the lock table
\* never holds two rows.
SingleBatchLock ==
  /\ Cardinality(delivery_batch_locks) <= 1
  /\ \A r, q \in Runs :
       (r # q /\ lockId[r] # 0 /\ lockId[q] # 0) =>
         (pc[r] = "done" \/ pc[q] = "done")

\* C4 as stated: every run that acquired the batch lock has deleted its
\* lock row when its response completes, for every outcome of the run.
LockAlwaysReleased ==
  \A r \in Runs :
    (pc[r] = "done" /\ lockId[r] # 0) => lockId[r] \notin delivery_batch_locks

\* C4 amended: every run that acquired the batch lock has issued the delete
\* of its lock row when its response completes, for every outcome of the
\* run, and the row is gone unless that delete itself failed.
LockReleasedUnlessDeleteFails ==
  \A r \in Runs :
    (pc[r] = "done" /\ lockId[r] # 0) =>
      /\ release[r] \in DbOutcomes
      /\ release[r] = "ok" => lockId[r] \notin delivery_batch_locks

\* C4 case: a run that ended with an unexpected error (500) and whose lock
\* row is deleted
ReleasedAfterError ==
  \E r \in Runs :
    /\ pc[r] = "done"
    /\ lockId[r] # 0
    /\ release[r] = "ok"
    /\ response[r] = ServerError
    /\ lockId[r] \notin delivery_batch_locks

\* the step of run r that handles the loop head
LoopStep(r) ==
  /\ pc[r] = "loop"
  /\ idx[r] <= Len(batch[r])
  /\ pc'[r] # pc[r] \/ idx'[r] # idx[r]

\* C5: a selected message that already has a delivered attempt row is
\* skipped: no send, no new attempt row, the message row is not modified,
\* processed increases by one and neither delivered nor failed increases.
DeliveredIsSkipped ==
  [][\A r \in Runs :
       (/\ LoopStep(r)
        /\ ~(elapsed[r] > TIMEOUT_MS)
        /\ DeliveredRows(CurrentMessage(r).id) # {}) =>
         /\ pc'[r] = "loop"
         /\ idx'[r] = idx[r] + 1
         /\ result'[r] = [result[r] EXCEPT !.processed = @ + 1]
         /\ UNCHANGED store]_vars

\* C6: when the transport returns an error for message M (and every database
\* call of the run is applied), the attempt row of M created in this run
\* becomes failed with the error text, M's status becomes failed, the failed
\* counter increases by one and the loop goes on to the next message.
SendErrorMarksOwnRow ==
  [][\A r \in Runs :
       (/\ pc[r] = "catch_msg"
        /\ pc'[r] = "loop"
        /\ caught[r] = "Failed to send email"
        /\ dbFault'[r] = "none") =>
         /\ \E k \in DOMAIN delivery_logs' :
              /\ delivery_logs'[k].id = myRow[r]
              /\ delivery_logs'[k].status = "failed"
              /\ delivery_logs'[k].error_message = caught[r]
         /\ messages'[CurrentMessage(r).id].status = "failed"
         /\ result'[r] = [result[r] EXCEPT !.failed = @ + 1]
         /\ idx'[r] = idx[r] + 1]_vars

\* C7: when a lock row exists at acquire time (the request is authorized and
\* the insert call returns), the run answers 200 {skipped: true, reason:
\* 'concurrent execution'} and changes nothing: no message is selected or
\* updated, no attempt row inserted, no send invoked, no lock row deleted;
\* the run takes no further step.
LockedRunSkips ==
  [][\A r \in Runs :
       /\ (/\ pc[r] = "idle"
           /\ pc'[r] # "idle"
           /\ delivery_batch_locks # {}
           /\ response'[r] # Unauthorized
           /\ dbFault'[r] # "throw") =>
            /\ response'[r] = Skipped
            /\ pc'[r] = "done"
            /\ lockId'[r] = 0
            /\ UNCHANGED store
       /\ pc[r] = "done" =>
            /\ pc'[r] = "done"
            /\ response'[r] = response[r]
            /\ lockId'[r] = lockId[r]]_vars

\* C7 case: a run answered "skipped" because the trigger rejected its insert
\* while another run holds the lock row
SkippedWhileLocked ==
  \E r, q \in Runs :
    /\ r # q
    /\ response[r] = Skipped
    /\ dbFault[r] = "none"
    /\ pc[q] \notin {"idle", "done"}
    /\ lockId[q] \in delivery_batch_locks

\* C8: when the selector returns n due pending messages, every send succeeds
\* (as does every database call of the run) and the deadline is not reached,
\* the run reports {processed: n,
\* delivered: n, failed: 0, stoppedEarly: false} and each of the n messages
\* has status delivered and exactly one ledger row, with status delivered.
AllSentAllDelivered ==
  \A r \in Runs :
    LET n == Len(batch[r])
    IN (/\ pc[r] = "finally"
        /\ response[r].kind = "result"
        /\ ~response[r].body.stoppedEarly
        /\ n > 0
        /\ accepted[r] = n
        /\ dbFault[r] = "none") =>
         /\ response[r].body = [processed |-> n, delivered |-> n,
                                failed |-> 0, stoppedEarly |-> FALSE]
         /\ \A k \in 1..n :
              /\ messages[batch[r][k].id].status = "delivered"
              /\ Cardinality(RowsOf(batch[r][k].id)) = 1
              /\ DeliveredRows(batch[r][k].id) = RowsOf(batch[r][k].id)

\* C9: the deadline is checked before each iteration and never interrupts a
\* message in progress: when the elapsed time exceeds the deadline at that
\* check the loop stops with stoppedEarly = true, processed counts only the
\* messages already handled, and the remaining selected messages keep their
\* status, get no attempt row and no send in this run; stoppedEarly is set
\* nowhere else.
DeadlineStopsBetweenMessages ==
  [][\A r \in Runs :
       /\ (LoopStep(r) /\ elapsed[r] > TIMEOUT_MS) =>
            /\ pc'[r] = "finally"
            /\ result[r].processed = idx[r] - 1
            /\ response'[r] =
                 BatchResponse([result[r] EXCEPT !.stoppedEarly = TRUE])
            /\ UNCHANGED store
       /\ (~result[r].stoppedEarly /\ result'[r].stoppedEarly) =>
            (LoopStep(r) /\ elapsed[r] > TIMEOUT_MS)
       /\ (pc[r] = "finally" /\ pc'[r] # "finally") =>
            /\ pc'[r] = "done"
            /\ UNCHANGED <<messages, delivery_logs, nextLogId, outbox>>]_vars

\* C9 case: a run stopped by the deadline after it handled some, but not
\* all, of the selected messages
StoppedEarlyMidBatch ==
  \E r \in Runs :
    /\ pc[r] = "finally"
    /\ response[r].kind = "result"
    /\ response[r].body.stoppedEarly
    /\ response[r].body.processed > 0
    /\ response[r].body.processed < Len(batch[r])

\* C10 as stated: with the processing time of one message bounded by
\* MaxMsgTime, the time between startTime and the exit of the processing
\* loop is at most TIMEOUT_MS + MaxMsgTime.
LoopExitWithinOneMessage ==
  \A r \in Runs :
    pc[r] = "finally" => elapsed[r] <= TIMEOUT_MS + MaxMsgTime

\* C10 amended: with the processing time of one message bounded by
\* MaxMsgTime, the time between startTime and the exit of the processing
\* loop is at most TIMEOUT_MS + MaxMsgTime + RATE_LIMIT_DELAY_MS (the
\* rate-limit delay that follows the message is waited out before the
\* deadline is checked again).
LoopExitWithinOneMessageAndDelay ==
  \A r \in Runs :
    pc[r] = "finally" =>
      elapsed[r] <= TIMEOUT_MS + MaxMsgTime + RATE_LIMIT_DELAY_MS

\* C10 case: a deadline stop at exactly the amended bound
LoopExitAtBound ==
  \E r \in Runs :
    /\ pc[r] = "finally"
    /\ response[r].body.stoppedEarly
    /\ elapsed[r] = TIMEOUT_MS + MaxMsgTime + RATE_LIMIT_DELAY_MS

\* the step of run r that inserts an attempt row
InsertStep(r) == pc[r] = "insert" /\ pc'[r] = "send"

\* C11: prepareDelivery for a message that has k attempt rows and no
\* delivered one inserts one new row with status pending and attempt number
\* k + 1 and returns k + 1, whatever the statuses of the k earlier rows.
AttemptNumberIsNext ==
  [][\A r \in Runs :
       (InsertStep(r) /\ DeliveredRows(CurrentMessage(r).id) = {}) =>
         LET m == CurrentMessage(r).id
             k == Cardinality(RowsOf(m))
         IN /\ Len(delivery_logs') = Len(delivery_logs) + 1
            /\ delivery_logs'[Len(delivery_logs')].message_id = m
            /\ delivery_logs'[Len(delivery_logs')].status = "pending"
            /\ delivery_logs'[Len(delivery_logs')].attempt_number = k + 1
            /\ attemptNumber[r] = k + 1]_vars

\* C12: the orchestrator changes a message's status only from pending to
\* delivered or from pending to failed; a message whose status is delivered
\* or failed is never modified again.
TerminalStatusIsFinal ==
  [][\A m \in DOMAIN messages :
       messages'[m] # messages[m] =>
         /\ messages[m].status = "pending"
         /\ messages'[m].status \in {"delivered", "failed"}]_vars

\* C13: in the processing of one message the transport send is invoked only
\* after (1) the ledger was read and held no delivered attempt for the
\* message and (2) a pending attempt row for the message was inserted, in
\* this order; if the insert fails, no send occurs for it in this run.
SendOnlyAfterCheckAndInsert ==
  [][\A r \in Runs :
       /\ pc[r] = "send" =>
            /\ ~seenDelivered[r]
            /\ \E k \in DOMAIN delivery_logs :
                 /\ delivery_logs[k].id = myRow[r]
                 /\ delivery_logs[k].message_id = CurrentMessage(r).id
       /\ (pc'[r] = "send" /\ pc[r] # "send") =>
            /\ InsertStep(r)
            /\ delivery_logs' # delivery_logs
       /\ (pc[r] = "insert" /\ pc'[r] \notin {"insert", "send"}) =>
            pc'[r] = "catch_log"
       /\ \A m \in Msgs :
            (outbox'[m] # outbox[m] /\ accepted'[r] # accepted[r]) =>
              /\ pc[r] = "send"
              /\ CurrentMessage(r).id = m]_vars

\* ids of the page run r selected
Selected(r) == {batch[r][k].id : k \in DOMAIN batch[r]}

SelectionFails(r) ==
  pc[r] = "select" /\ pc'[r] # "select" /\ dbFault'[r] # "none"

\* the finally step of a run whose selection query failed
FinallyAfterSelectionError(r) ==
  /\ pc[r] = "finally"
  /\ pc'[r] # "finally"
  /\ batch[r] = <<>>
  /\ response[r].kind = "error"

\* C15 as stated: if the selection query fails, the run answers 500 with an
\* error body, no message is modified, no attempt row inserted, no send
\* invoked, and the lock acquired by the run is released.
SelectionErrorReleasesLock ==
  [][\A r \in Runs :
       /\ SelectionFails(r) =>
            /\ response'[r].status = 500
            /\ response'[r].kind = "error"
            /\ pc'[r] = "finally"
            /\ UNCHANGED store
       /\ FinallyAfterSelectionError(r) =>
            /\ pc'[r] = "done"
            /\ response'[r] = response[r]
            /\ UNCHANGED <<messages, delivery_logs, nextLogId, outbox>>
            /\ lockId[r] \notin delivery_batch_locks']_vars

\* C15 amended: if the selection query fails, the run answers 500 with an
\* error body, no message is modified, no attempt row inserted, no send
\* invoked, and the delete of the run's lock row is issued; the row is gone
\* unless that delete itself fails.
SelectionErrorIssuesRelease ==
  [][\A r \in Runs :
       /\ SelectionFails(r) =>
            /\ response'[r].status = 500
            /\ response'[r].kind = "error"
            /\ pc'[r] = "finally"
            /\ UNCHANGED store
       /\ FinallyAfterSelectionError(r) =>
            /\ pc'[r] = "done"
            /\ response'[r] = response[r]
            /\ UNCHANGED <<messages, delivery_logs, nextLogId, outbox>>
            /\ release'[r] \in DbOutcomes
            /\ release'[r] = "ok" =>
                 lockId[r] \notin delivery_batch_locks']_vars

\* C15 case: the selection of a run failed while messages were due, and the
\* run holds its lock row and the 500 response
SelectionFailedWithDueMessages ==
  \E r \in Runs :
    /\ pc[r] = "finally"
    /\ batch[r] = <<>>
    /\ response[r].status = 500
    /\ dbFault[r] # "none"
    /\ DueMessages # {}
    /\ lockId[r] \in delivery_batch_locks

\* a header value that is not the configured secret, or no secret configured
BadSecret(header) == cronSecret = NULL \/ header # cronSecret

\* C16: a process-delivery or cleanup-logs request whose x-cron-secret header
\* is absent or differs from CRON_SECRET, or any request while CRON_SECRET
\* is unset, is answered 401 and changes no state.
BadSecretChangesNothing ==
  [][\A header \in HeaderValues, o \in DbOutcomes :
       BadSecret(header) =>
         /\ cleanupLogs(header, o).status = 401
         /\ cleanupLogs(header, o).logs = delivery_logs
         /\ \A r \in Runs :
              (pc[r] = "idle" /\ pc'[r] # "idle" /\ Serve(r, header, o)) =>
                /\ response'[r].status = 401
                /\ pc'[r] = "done"
                /\ lockId'[r] = 0
                /\ UNCHANGED store]_vars

\* C16 case: a request was refused with 401 while the ledger held rows old
\* enough for the sweep to delete
RefusedWhileSweepable ==
  \E r \in Runs :
    /\ pc[r] = "done"
    /\ response[r].status = 401
    /\ SweepLogs(delivery_logs, now) # delivery_logs

\* the catch around the lock delete logs BATCH_LOCK_RELEASE_FAILED with the
\* lock id; it runs only when the awaited delete rejects, while a delete that
\* resolves with an error object is not inspected
LogsReleaseFailure(o) == o = "throw"

\* C17: whenever the delete of the lock row at the end of a run fails, the
\* event BATCH_LOCK_RELEASE_FAILED with the lock id is logged, and the HTTP
\* response of the run is the same as if the release had succeeded.
ReleaseFailureIsLogged ==
  [][\A r \in Runs :
       (/\ pc[r] = "finally"
        /\ pc'[r] = "done"
        /\ lockId[r] # 0
        /\ release'[r] # "ok") =>
         /\ LogsReleaseFailure(release'[r])
         /\ response'[r] = response[r]]_vars

LockLeftBehind ==
  \E r \in Runs : pc[r] \in {"idle", "done"} /\ r \in delivery_batch_locks

\* the ledger reached the capacity explored
LedgerFull == Len(delivery_logs) >= MaxLogs

Verified(h) == hook[h].event.signature = ValidSignature

\* C20: the payment webhook writes payments or profiles only for a request
\* whose signature verification succeeded; a request with a missing or
\* invalid signature is answered 400 and nothing is written.  (The one other
\* writer of payments is the checkout handler, which is not the webhook.)
SignatureGatesWrites ==
  [][/\ \A h \in Hooks :
          hook[h].pc \notin {"idle", "done"} => Verified(h)
     /\ (payments' # payments \/ profiles' # profiles) =>
          \/ \E c \in Sessions : CreateCheckout(c)
          \/ \E h \in Hooks :
               /\ hook[h].pc \notin {"idle", "done"}
               /\ Verified(h)
               /\ hook'[h] # hook[h]
     /\ \A h \in Hooks :
          (/\ hook[h].pc \in {"idle", "done"}
           /\ hook'[h] # hook[h]
           /\ hook'[h].event.signature # ValidSignature) =>
            /\ hook'[h].pc = "done"
            /\ hook'[h].response.status = 400
            /\ UNCHANGED <<payments, profiles>>]_vars

\* C20 case: a forged request was answered 400 with tables left as they were
\* while a verified request of the same checkout is in progress
ForgedRefusedBesideVerified ==
  \E h, g \in Hooks :
    /\ hook[h].pc = "done"
    /\ hook[h].event.signature \notin {NULL, ValidSignature}
    /\ hook[h].response.status = 400
    /\ hook[g].pc = "complete"
    /\ payments[hook[g].event.session] = "pending"

\* hook h takes a step of its handler
HookStep(h) == hook'[h] # hook[h]

\* C21 as stated: a webhook for a checkout session whose payment record is
\* already completed answers 200 already_processed and writes nothing.
CompletedAnswersAlreadyProcessed ==
  [][\A h \in Hooks :
       (/\ hook[h].pc = "select"
        /\ payments[hook[h].event.session] = "completed"
        /\ HookStep(h)) =>
         /\ hook'[h].pc = "done"
         /\ hook'[h].response = HookResponse(200, "already_processed")
         /\ UNCHANGED <<payments, profiles>>]_vars

\* C21 amended: a webhook for a checkout session whose payment record is
\* already completed writes nothing; it answers 200 already_processed when
\* its lookup of the record succeeds and 500 when the lookup fails.
CompletedWritesNothing ==
  [][\A h \in Hooks :
       /\ (/\ hook[h].pc = "select"
           /\ payments[hook[h].event.session] = "completed"
           /\ HookStep(h)) =>
            /\ UNCHANGED <<payments, profiles>>
            /\ \/ hook'[h].response = HookResponse(200, "already_processed")
               \/ hook'[h].response.status = 500
               \/ hook'[h].pc = "insert"
       /\ (/\ hook[h].pc = "insert"
           /\ payments[hook[h].event.session] = "completed"
           /\ HookStep(h)) =>
            /\ UNCHANGED <<payments, profiles>>
            /\ hook'[h].pc = "done"
            /\ hook'[h].response.status = 500]_vars

\* C21 case: a delivery for a completed payment of an upgraded user was
\* answered already_processed
RedeliveryAnswered ==
  \E h \in Hooks :
    /\ hook[h].pc = "done"
    /\ hook[h].response = HookResponse(200, "already_processed")
    /\ payments[hook[h].event.session] = "completed"
    /\ profiles["u1"] = "pro"

\* the status moves of a payment record the specification allows
AllowedPaymentMoves ==
  {<<"none", "pending">>, <<"pending", "completed">>, <<"pending", "failed">>}

\* C22: the status of a payment record only moves absent to pending, pending
\* to completed or pending to failed; a completed or failed record is never
\* changed to another status by a later webhook delivery.
PaymentStatusOnlyAdvances ==
  [][\A c \in Sessions :
       payments'[c] # payments[c] =>
         <<payments[c], payments'[c]>> \in AllowedPaymentMoves]_vars

\* the attempt numbers recorded for message m
AttemptNumbers(m) == {delivery_logs[k].attempt_number : k \in RowsOf(m)}

\* C26: after any sequence of runs, with sends, ledger writes or status
\* writes failing at any point, the attempt numbers of the ledger rows of
\* each message are exactly 1..N, without gap and without repetition.
AttemptNumbersDense ==
  \A m \in DOMAIN messages :
    /\ AttemptNumbers(m) = 1..Cardinality(RowsOf(m))
    /\ Cardinality(AttemptNumbers(m)) = Cardinality(RowsOf(m))

\* the address has no '@'
LacksAt(email) == \A k \in DOMAIN email : email[k] # "@"

\* C27: for a selected message whose delivery_email contains no '@' (every
\* database call of the run being applied), no send is invoked, the attempt
\* row created for it becomes failed, its status becomes failed, the failed
\* counter increases by one and the batch goes on to the next message.
InvalidEmailFailsOwnRow ==
  [][\A r \in Runs :
       /\ (/\ pc[r] = "send"
           /\ pc'[r] # "send"
           /\ LacksAt(CurrentMessage(r).delivery_email)) =>
            /\ UNCHANGED outbox
            /\ pc'[r] = "catch_log"
       /\ (/\ pc[r] = "catch_msg"
           /\ pc'[r] = "loop"
           /\ LacksAt(CurrentMessage(r).delivery_email)
           /\ dbFault'[r] = "none") =>
            /\ \E k \in DOMAIN delivery_logs' :
                 /\ delivery_logs'[k].id = myRow[r]
                 /\ delivery_logs'[k].status = "failed"
            /\ messages'[CurrentMessage(r).id].status = "failed"
            /\ result'[r] = [result[r] EXCEPT !.failed = @ + 1]
            /\ idx'[r] = idx[r] + 1]_vars

\* the catch block of run r issues its ledger update
CatchLogStep(r) == pc[r] = "catch_log" /\ pc'[r] # "catch_log"

\* C28: when processing of message M fails, the only attempt row whose
\* status changes is the row this processing inserted; no earlier row of M
\* and no row of another message changes, also when the failure is the
\* insert of the attempt row itself.
FailureMarksOnlyOwnRow ==
  [][\A r \in Runs :
       CatchLogStep(r) =>
         \A k \in DOMAIN delivery_logs :
           delivery_logs'[k].status # delivery_logs[k].status =>
             /\ myRow[r] # 0
             /\ delivery_logs[k].id = myRow[r]
             /\ delivery_logs[k].message_id = CurrentMessage(r).id]_vars

\* run r finishes the message at position idx and returns to the loop head
NextMessageStep(r) ==
  /\ pc[r] \notin {"idle", "select", "done"}
  /\ pc'[r] = "loop"
  /\ idx'[r] # idx[r]

\* C29: within one run messages are handled one at a time in selection
\* order; a send always concerns the message at the current position, the
\* position advances by one, and between finishing a message and starting
\* the next the run waits RATE_LIMIT_DELAY_MS, except after the last
\* selected message.
OneAtATimeWithDelay ==
  [][\A r \in Runs :
       /\ NextMessageStep(r) =>
            /\ idx'[r] = idx[r] + 1
            /\ batch'[r] = batch[r]
            /\ IF idx[r] < Len(batch[r])
               THEN elapsed'[r] - elapsed[r] - RATE_LIMIT_DELAY_MS
                      \in MsgTimes
               ELSE elapsed'[r] - elapsed[r] \in MsgTimes
       /\ accepted'[r] > accepted[r] =>
            /\ pc[r] = "send"
            /\ accepted'[r] = accepted[r] + 1
            /\ idx'[r] = idx[r]
            /\ outbox' = [outbox EXCEPT ![batch[r][idx[r]].id] = @ + 1]
       /\ (elapsed'[r] # elapsed[r] /\ pc'[r] # "done") =>
            NextMessageStep(r)]_vars

\* C29 case: a run whose first two sends were accepted is sending its third
\* message, two delays after its start
ThirdSendAfterTwoDelays ==
  \E r \in Runs :
    /\ pc[r] = "send"
    /\ idx[r] = 3
    /\ accepted[r] = 2
    /\ elapsed[r] >= 2 * RATE_LIMIT_DELAY_MS

\* run r is between the start and the end of processMessage
InProcessMessage(r) ==
  pc[r] \in {"insert", "send", "log_delivered", "msg_delivered",
             "catch_log", "catch_msg"}

\* C30: in the result of every run, processed is the number of messages on
\* which processing was started; every started message ends counted as
\* delivered, as failed, or as neither (skipped), the skipped ones being
\* those found delivered in the ledger; delivered + failed never exceeds
\* processed and processed never exceeds the number of selected messages.
ResultCountsAddUp ==
  [][\A r \in Runs :
       /\ pc[r] = "loop" => result[r].processed = idx[r] - 1
       /\ InProcessMessage(r) => result[r].processed = idx[r]
       /\ result[r].delivered + result[r].failed <= result[r].processed
       /\ result[r].processed <= Len(batch[r])
       /\ NextMessageStep(r) =>
            \/ /\ pc[r] = "loop"
               /\ DeliveredRows(CurrentMessage(r).id) # {}
               /\ result'[r] = [result[r] EXCEPT !.processed = @ + 1]
            \/ /\ pc[r] = "msg_delivered"
               /\ result'[r] = [result[r] EXCEPT !.delivered = @ + 1]
            \/ /\ pc[r] = "catch_msg"
               /\ result'[r] = [result[r] EXCEPT !.failed = @ + 1]
       /\ (response'[r] # response[r] /\ response'[r].kind = "result") =>
            /\ response'[r].body.processed = result[r].processed
            /\ response'[r].body.delivered = result[r].delivered
            /\ response'[r].body.failed = result[r].failed
            /\ pc[r] \in {"select", "loop"}]_vars

\* C30 case: a run returned a result in which its one started message is
\* neither delivered nor failed
ResultWithSkippedMessage ==
  \E r \in Runs :
    /\ pc[r] = "done"
    /\ response[r].kind = "result"
    /\ response[r].body.processed = 1
    /\ response[r].body.delivered = 0
    /\ response[r].body.failed = 0

\* C24: storage_used_bytes of every profile is >= 0 in every reachable
\* state, for any order and any sign of the deltas applied.
StorageNeverNegative == storage_used_bytes >= 0

\* C24 case: a delta that would have taken the counter below zero was
\* applied (a cancel returned success with no bytes left to subtract)
StorageFlooredAtZero ==
  \E q \in Clients :
    /\ client[q].op = "cancel"
    /\ client[q].result = "success"
    /\ client[q].size > 0
    /\ storage_used_bytes < client[q].size

\* no MessageService call is in progress
AllReturned == \A q \in Clients : client[q].pc \in {"idle", "done"}

\* C23: for a free-tier user, under any interleaving of concurrent
\* createMessage requests, a request succeeds only by flipping
\* free_message_used from false to true, which happens at most once; every
\* other request removes the message it inserted and returns failure, so
\* once all requests have returned at most one message of the user persists.
FreeUserKeepsOneMessage ==
  [][profiles["u1"] = "free" =>
       /\ \A q \in Clients :
            (client'[q].result = "success" /\ client[q].result # "success"
             /\ client'[q].op = "create") =>
              /\ ~free_message_used
              /\ free_message_used'
       /\ AllReturned' => Cardinality(user_messages') <= 1]_vars

\* request q is in the catch block of createMessage's storage update
Compensating(q) ==
  /\ client[q].op = "create"
  /\ client[q].pc \in {"remove_blob", "delete_message"}

\* C25: when update_storage_used fails after a video upload, createMessage
\* deletes the blob, then the message record, and returns failure; it logs
\* COMPENSATING_DELETE_FAILED exactly when the blob deletion failed; after
\* it has returned the message record does not exist, and the compensation
\* leaves storage_used_bytes as it was.
StorageFailureIsCompensated ==
  [][\A q \in Clients :
       /\ (client[q].pc = "storage" /\ client'[q].pc # "storage") =>
            \/ client'[q].result = "success"
            \/ /\ client'[q].pc = "remove_blob"
               /\ storage_used_bytes' = storage_used_bytes
       /\ (Compensating(q) /\ client'[q] # client[q]) =>
            /\ storage_used_bytes' = storage_used_bytes
            /\ client[q].pc = "remove_blob" =>
                 /\ client'[q].pc = "delete_message"
                 /\ user_messages' = user_messages
                 /\ client'[q].logged => blobs' = blobs
                 /\ client[q].id \in blobs' => client'[q].logged
            /\ client[q].pc = "delete_message" =>
                 /\ client'[q].pc = "done"
                 /\ client'[q].result = "failure"
                 /\ \A row \in user_messages' : row.id # client[q].id]_vars

\* the handler of request h returns its response in this step
HookReturns(h) ==
  /\ hook[h].pc \notin {"idle", "done"}
  /\ hook'[h].pc = "done"

\* C31: whichever state the lookup finds, a webhook delivery for the
\* checkout of an existing user that returns 200 leaves the payment of that
\* session completed and the user's tier pro; and a delivery none of whose
\* database calls fails returns 200, so that retries after a 500 converge
\* to that state.
DeliveryConvergesToCompleted ==
  [][\A h \in Hooks :
       (HookReturns(h) /\ hook[h].event.userId \in DOMAIN profiles) =>
         /\ hook'[h].response.status = 200 =>
              /\ payments'[hook[h].event.session] = "completed"
              /\ profiles'[hook[h].event.userId] = "pro"
         /\ ~hookFault'[h] => hook'[h].response.status = 200]_vars

RetryAfterFailureCompleted ==
  \E g, h \in Hooks :
    /\ hook[g].pc = "done"
    /\ hook[g].response.status = 500
    /\ hook[h].pc = "done"
    /\ hook[h].response = HookResponse(200, "completed")
    /\ hook[h].event.session = hook[g].event.session
    /\ payments[hook[h].event.session] = "completed"
    /\ profiles[hook[h].event.userId] = "pro"
    /\ deliveries = 2

\* sum of video_size_bytes over a set of message rows
RECURSIVE VideoBytes(_)
VideoBytes(rows) ==
  IF rows = {} THEN 0
  ELSE LET row == CHOOSE x \in rows : TRUE
       IN row.size + VideoBytes(rows \ {row})

\* C32: once every createMessage and cancelMessage call of the user has
\* returned, storage_used_bytes equals the sum of video_size_bytes over the
\* user's existing messages that carry a video.
StorageMatchesMessages ==
  AllReturned => storage_used_bytes = VideoBytes(user_messages)

\* C33: for any interleaving of show() and hide() with the asynchronous
\* render, at most one detail overlay is attached to the document and at most
\* one countdown interval is active at any time, and after hide() no
\* countdown interval remains active.
OneOverlayOneInterval ==
  [][/\ Cardinality(browser'.document) <= 1
     /\ Cardinality(browser'.timers) <= 1
     /\ Hide => browser'.timers = {}]_vars

\* C40: when an unlocked message with a video is shown without the 'Video
\* unavailable' fallback, the URL given to the video player is a signed URL
\* generated for that message's own video_storage_path, for any sequence of
\* show() and hide() calls over different messages.
PlayerGetsOwnVideo ==
  \A el \in browser.document : el.video = "player" => el.src = el.path

\* C34: a run answers {skipped: true, reason: 'concurrent execution'} only
\* when a lock row of another run existed when it tried to acquire the lock;
\* a lock insert that failed for another reason is not answered as a skip.
SkipOnlyWhenLockHeld ==
  [][\A r \in Runs :
       (pc[r] = "idle" /\ response'[r] = Skipped) =>
         delivery_batch_locks # {}]_vars

\* C35: whenever an orchestrator run sets a message's status to delivered,
\* the ledger holds an attempt row with status delivered for that message,
\* also when the ledger update after a successful send failed.
StatusNeverAheadOfLedger ==
  [][\A m \in Msgs :
       (/\ m \in DOMAIN messages
        /\ messages[m].status # "delivered"
        /\ messages'[m].status = "delivered") =>
         \E k \in DOMAIN delivery_logs' :
           /\ delivery_logs'[k].message_id = m
           /\ delivery_logs'[k].status = "delivered"]_vars

\* the transport accepted the current message of run r in this run, and the
\* run has not counted it yet
SentUncounted(r) == accepted[r] > result[r].delivered

\* C36: a message for which the transport accepted the email in a run is
\* never marked failed by that run, neither its attempt row nor its message
\* status, and the run counts it as delivered, whatever bookkeeping write
\* fails or throws after the send.
AcceptedNeverMarkedFailed ==
  [][\A r \in Runs :
       /\ (SentUncounted(r) /\ pc[r] \in {"catch_log", "catch_msg"}) =>
            /\ delivery_logs' = delivery_logs
            /\ messages' = messages
       /\ pc'[r] \in {"loop", "finally", "done"} =>
            result'[r].delivered = accepted'[r]]_vars

\* C37: the delivered check is monotone: once the ledger holds a delivered
\* attempt for a message, checkDeliveryIdempotency returns true for that
\* message in every later state, under any interleaving of orchestrator runs
\* and the retention sweep.
DeliveredCheckMonotone ==
  [][\A m \in Msgs :
       DeliveredRows(m) # {} => checkDeliveryIdempotency(m, "ok")']_vars

\* C38: after cancelMessage has returned success for a message, no email
\* for that message is sent by any orchestrator run, including a run that
\* had selected the message before it was cancelled.
NoEmailAfterCancel ==
  [][\A m \in Msgs :
       cancelled[m] = "success" => outbox'[m] = outbox[m]]_vars

\* C39: storage_used_bytes of a profile never exceeds its
\* storage_limit_bytes, under any interleaving of video uploads and
\* createMessage calls by the same user.
StorageWithinLimit ==
  storage_used_bytes <= storage_limit_bytes(profiles["u1"])

====
